---- MODULE Spec2Model ----
(***************************************************************************)
(* A model of repos.py: the search fetcher get_repos, the Link-header      *)
(* parser, the pager generator, truncate_description, write_csv and main.  *)
(*                                                                         *)
(* Python strings whose characters the code looks at (URLs, Link headers,  *)
(* descriptions, timestamps) are sequences of one-character strings.       *)
(* Strings the code only passes along (full_name, language, html_url) are  *)
(* TLA+ strings.  An optional value (None or a value) is a record          *)
(* [none |-> BOOLEAN, v |-> value].                                        *)
(***************************************************************************)
EXTENDS Integers, Sequences, FiniteSets, TLC

VARIABLES
    pc,           \* position of main: "main", "pager", "yield", "fetched", "done", "raised"
    url,          \* pager's local url (optional string)
    params,       \* pager's local params (optional: the initial query or None)
    total_count,  \* pager's local total_count (optional integer)
    response,     \* the response get_repos last received (optional)
    data,         \* pager's local data = response.json() of the current page
    idx,          \* position of `yield from data['items']` in the current page
    repos,        \* the list main accumulates from pager
    requests,     \* every requests.get call made, in order
    pages,        \* every page the server served successfully, in order
    printed,      \* what was printed, in order
    slept,        \* the durations sleep() was called with, in order
    file,         \* the output file: None until opened, then the rows written
    err,          \* the exception that ended the run, "" while there is none
    description,  \* truncate_description: argument (optional string)
    max_length,   \* truncate_description: argument
    truncated,    \* truncate_description: its result (optional: None before the call)
    truncated2,   \* truncate_description: its result on its own result
    tpc,          \* truncate_description: "call", "returned", then "again"
    link_entries, \* parse_link_header: the entries the header was made of
    link_value,   \* parse_link_header: the Link header it is called on (optional)
    link_result,  \* parse_link_header: its result, [ok, links]
    lpc           \* parse_link_header: "call" before, "returned" after

vars == <<pc, url, params, total_count, response, data, idx, repos, requests,
          pages, printed, slept, file, err, description, max_length, truncated,
          truncated2, tpc, link_entries, link_value, link_result, lpc>>

mainVars == <<pc, url, params, total_count, response, data, idx, repos,
              requests, pages, printed, slept, file, err>>

truncVars == <<description, max_length, truncated, truncated2, tpc>>

linkVars == <<link_entries, link_value, link_result, lpc>>

----------------------------------------------------------------------------
(* Bounds of the model *)

\* the pager is stopped after this many requests
MaxFetch == 3
\* truncate_description is applied to texts of at most this length
MaxLen == 4
\* ... and to max_length values in 0..MaxN
MaxN == 5
\* parse_link_header is applied to headers of at most this many entries
MaxEntries == 2

----------------------------------------------------------------------------
(* Python values *)

None == [none |-> TRUE, v |-> <<>>]
NoneInt == [none |-> TRUE, v |-> 0]
Some(x) == [none |-> FALSE, v |-> x]

\* the truth value of an optional string: None and '' are false
Truthy(s) == ~s.none /\ Len(s.v) > 0

\* s[:k]
SlicePrefix(s, k) ==
    IF k >= 0
    THEN SubSeq(s, 1, IF k < Len(s) THEN k ELSE Len(s))
    ELSE SubSeq(s, 1, IF Len(s) + k > 0 THEN Len(s) + k ELSE 0)

\* p occurs in s at position i
OccursAt(s, p, i) ==
    /\ i >= 1
    /\ i + Len(p) - 1 <= Len(s)
    /\ \A k \in 1..Len(p) : s[i + k - 1] = p[k]

\* s.find(p), 1-based, 0 when p does not occur
Find(s, p) ==
    LET hits == {i \in 1..Len(s) : OccursAt(s, p, i)}
    IN  IF hits = {} THEN 0 ELSE CHOOSE i \in hits : \A j \in hits : i <= j

RECURSIVE Split(_, _)
\* s.split(sep)
Split(s, sep) ==
    LET i == Find(s, sep)
    IN  IF i = 0
        THEN <<s>>
        ELSE <<SubSeq(s, 1, i - 1)>> \o Split(SubSeq(s, i + Len(sep), Len(s)), sep)

----------------------------------------------------------------------------
(* truncate_description *)

DefaultMaxLength == 80

Ellipsis == <<".", ".", ".">>

\* truncate_description keeping the end of the text instead of its start
TruncateDescription_KeepTail(d, n) ==
    IF Truthy(d) /\ Len(d.v) > n
    THEN SubSeq(d.v, IF n >= 3 THEN n - 2
                     ELSE IF Len(d.v) + n - 2 >= 1 THEN Len(d.v) + n - 2 ELSE 1,
                Len(d.v)) \o Ellipsis
    ELSE IF Truthy(d) THEN d.v ELSE <<>>

TruncateDescription(d, n) ==
    IF Truthy(d) /\ Len(d.v) > n
    THEN SlicePrefix(d.v, n - 3) \o Ellipsis
    ELSE IF Truthy(d) THEN d.v ELSE <<>>

----------------------------------------------------------------------------
(* Configuration (module level, lines 11-18) *)

BASE_URL == <<"h", "t", "t", "p", "s", ":", "/", "/", "a", "p", "i", ".",
              "g", "i", "t", "h", "u", "b", ".", "c", "o", "m">>

ENDPOINT == <<"/", "s", "e", "a", "r", "c", "h", "/", "r", "e", "p", "o",
              "s", "i", "t", "o", "r", "i", "e", "s">>

URL == BASE_URL \o ENDPOINT

QUERY == "quasar OR quasar-framework in:topics"

PER_PAGE == 100

\* the params dict main builds
MainParams == [q |-> QUERY, per_page |-> PER_PAGE, sort |-> "stars", order |-> "desc"]

NoParams == [none |-> TRUE, v |-> [q |-> "", per_page |-> 0, sort |-> "", order |-> ""]]

\* the headers dict get_repos builds
RequestHeaders ==
    [Accept |-> "application/vnd.github.v3+json", Authorization |-> "token GITHUB_TOKEN"]

----------------------------------------------------------------------------
(* parse_link_header *)

\* the text between the two groups of r'<(.*)>; rel="(.*)"'
RelMark == <<">", ";", " ", "r", "e", "l", "=", "\"">>

EntrySep == <<",", " ">>

Max(S) == CHOOSE x \in S : \A y \in S : y <= x
Min(S) == CHOOSE x \in S : \A y \in S : x <= y

\* re.search(r'<(.*)>; rel="(.*)"', link): the leftmost "<" from which the
\* pattern matches, both groups greedy.  [matched, url, rel]
ReSearch(link) ==
    LET n == Len(link)
        \* j can hold the '>; rel="' of a match: a closing quote follows it
        Marks == {j \in 1..n : /\ OccursAt(link, RelMark, j)
                                /\ \E k \in (j + Len(RelMark))..n : link[k] = "\""}
        Starts == {i \in 1..n : link[i] = "<" /\ \E j \in Marks : j > i}
    IN  IF Starts = {}
        THEN [matched |-> FALSE, url |-> <<>>, rel |-> <<>>]
        ELSE LET i == Min(Starts)
                 j == Max({m \in Marks : m > i})
                 k == Max({q \in (j + Len(RelMark))..n : link[q] = "\""})
             IN  [matched |-> TRUE,
                  url |-> SubSeq(link, i + 1, j - 1),
                  rel |-> SubSeq(link, j + Len(RelMark), k - 1)]

EmptyLinks == [r \in {} |-> <<>>]

RECURSIVE ParseEntries(_, _)
\* the for loop of parse_link_header over the entries still to read.
\* [ok, links]: ok is FALSE when .groups() is called on a failed search
ParseEntries(entries, links) ==
    IF entries = <<>>
    THEN [ok |-> TRUE, links |-> links]
    ELSE LET m == ReSearch(Head(entries))
         IN  IF ~m.matched
             THEN [ok |-> FALSE, links |-> EmptyLinks]
             ELSE ParseEntries(Tail(entries),
                      [r \in DOMAIN links \cup {m.rel} |->
                          IF r = m.rel THEN m.url ELSE links[r]])

\* parse_link_header splitting the header at every comma
ParseLinkHeader_SplitComma(link_header) ==
    IF Len(link_header) > 0
    THEN ParseEntries(Split(link_header, <<",">>), EmptyLinks)
    ELSE [ok |-> TRUE, links |-> EmptyLinks]

ParseLinkHeader(link_header) ==
    IF Len(link_header) > 0
    THEN ParseEntries(Split(link_header, EntrySep), EmptyLinks)
    ELSE [ok |-> TRUE, links |-> EmptyLinks]

RelNext == <<"n", "e", "x", "t">>
RelLast == <<"l", "a", "s", "t">>

\* pager following the 'last' relation
LinksGetNext_Last(links) ==
    IF RelLast \in DOMAIN links THEN Some(links[RelLast]) ELSE None

\* links.get('next')
LinksGetNext(links) ==
    IF RelNext \in DOMAIN links THEN Some(links[RelNext]) ELSE None

\* no call of parse_link_header on its own
NotParsed == [ok |-> FALSE, links |-> EmptyLinks]

LinkIdle ==
    /\ link_entries = <<>>
    /\ link_value = None
    /\ link_result = NotParsed
    /\ lpc = "idle"

----------------------------------------------------------------------------
(* The records of the search API *)

T_2022 == <<"2", "0", "2", "2", "-", "1", "2", "-", "3", "1", "T",
            "2", "3", ":", "5", "9", ":", "5", "9", "Z">>

T_2023 == <<"2", "0", "2", "3", "-", "0", "1", "-", "0", "2", "T",
            "0", "0", ":", "0", "0", ":", "0", "0", "Z">>

ShortText == <<"T", "e", "s", "t", " ", "r", "e", "p", "o", " ", "1">>

\* a description longer than the default max_length
LongText == [i \in 1..(DefaultMaxLength + 5) |-> IF i % 2 = 1 THEN "a" ELSE "."]

NoLanguage == [none |-> TRUE, v |-> ""]

Repo10Old ==
    [full_name |-> "test/repo1", description |-> Some(ShortText),
     stargazers_count |-> 10, language |-> Some("Python"),
     updated_at |-> T_2022, html_url |-> "https://github.com/test/repo1"]

Repo20New ==
    [full_name |-> "test/repo2", description |-> Some(LongText),
     stargazers_count |-> 20, language |-> Some("JavaScript"),
     updated_at |-> T_2023, html_url |-> "https://github.com/test/repo2"]

Repo20Old ==
    [full_name |-> "test/repo3", description |-> None,
     stargazers_count |-> 20, language |-> NoLanguage,
     updated_at |-> T_2022, html_url |-> "https://github.com/test/repo3"]

\* the items of one page, as the server may serve them
PageItems ==
    {<<>>, <<Repo10Old>>, <<Repo20New>>, <<Repo20Old>>, <<Repo20Old, Repo10Old>>}

----------------------------------------------------------------------------
(* The server *)

\* status codes the server answers with
Statuses == {200, 304, 403, 404, 429, 500}

Page2 == URL \o <<"?", "p", "a", "g", "e", "=", "2">>
Page9 == URL \o <<"?", "p", "a", "g", "e", "=", "9">>

\* one entry of a Link header
LinkEntry(u, rel) == <<"<">> \o u \o RelMark \o rel \o <<"\"">>

\* the Link headers the server may send: absent, empty, one of a page with
\* a next page, and one that is not of the <url>; rel="name" form.
\* next is the next page the server means, raw the header it sends.
ServerLinks ==
    { [sent |-> FALSE, raw |-> <<>>, next |-> None, wellformed |-> TRUE],
      [sent |-> TRUE, raw |-> <<>>, next |-> None, wellformed |-> TRUE],
      [sent |-> TRUE,
       raw |-> LinkEntry(Page2, RelNext) \o EntrySep \o LinkEntry(Page9, RelLast),
       next |-> Some(Page2), wellformed |-> TRUE],
      [sent |-> TRUE, raw |-> Page2, next |-> None, wellformed |-> FALSE] }

\* response.headers.get('Link', '')
HeadersGetLink(headers) == IF headers.Link.none THEN <<>> ELSE headers.Link.v

\* the total_count values the server may declare
TotalCounts == {0, 2}

NoData == [total_count |-> 0, items |-> <<>>]

\* the responses the server may give to one request: a 2xx response carries
\* a JSON body, any other response carries none
ServerResponses ==
    { [status_code |-> 200,
       headers |-> [Link |-> IF l.sent THEN Some(l.raw) ELSE None],
       json |-> Some([total_count |-> t, items |-> it]),
       link |-> l]
        : l \in ServerLinks, t \in TotalCounts, it \in PageItems }
    \cup
    { [status_code |-> s,
       headers |-> [Link |-> None],
       json |-> [none |-> TRUE, v |-> NoData],
       link |-> CHOOSE l \in ServerLinks : ~l.sent]
        : s \in Statuses \ {200} }

NoResponse ==
    [none |-> TRUE,
     v |-> [status_code |-> 0, headers |-> [Link |-> None],
            json |-> [none |-> TRUE, v |-> NoData],
            link |-> CHOOSE l \in ServerLinks : ~l.sent]]

----------------------------------------------------------------------------
(* get_repos *)

\* line 30: the statuses get_repos takes for throttling
IsThrottled(status) == status = 429 \/ status = 403

\* get_repos raising for server errors only
RaiseForStatus_ServerOnly(status) == 500 <= status /\ status < 600

\* response.raise_for_status() raises for a 4xx or 5xx status
RaiseForStatus(status) == 400 <= status /\ status < 600

\* What one call of get_repos does with the response r of its request.
\* Line 31 reads the global name `time`, which the module never binds (line 9
\* imports only sleep): the throttling branch raises NameError before it
\* prints, sleeps or loops, so no action of the model ever adds to slept.
GetReposOutcome(r) ==
    IF IsThrottled(r.status_code) THEN "NameError"
    ELSE IF RaiseForStatus(r.status_code) THEN "HTTPError"
    ELSE "return"

----------------------------------------------------------------------------
(* write_csv *)

DigitVal(c) ==
    CASE c = "0" -> 0 [] c = "1" -> 1 [] c = "2" -> 2 [] c = "3" -> 3
      [] c = "4" -> 4 [] c = "5" -> 5 [] c = "6" -> 6 [] c = "7" -> 7
      [] c = "8" -> 8 [] c = "9" -> 9

RECURSIVE ParseInt(_)
ParseInt(s) ==
    IF s = <<>> THEN 0
    ELSE 10 * ParseInt(SubSeq(s, 1, Len(s) - 1)) + DigitVal(s[Len(s)])

\* datetime.strptime(s, '%Y-%m-%dT%H:%M:%SZ'), as
\* <<year, month, day, hour, minute, second>>
Strptime(s) ==
    <<ParseInt(SubSeq(s, 1, 4)), ParseInt(SubSeq(s, 6, 7)),
      ParseInt(SubSeq(s, 9, 10)), ParseInt(SubSeq(s, 12, 13)),
      ParseInt(SubSeq(s, 15, 16)), ParseInt(SubSeq(s, 18, 19))>>

\* datetime a < datetime b
DatetimeLess(a, b) ==
    \E i \in 1..Len(a) : a[i] < b[i] /\ \A j \in 1..(i - 1) : a[j] = b[j]

\* the key of line 76
SortKey(x) == <<-x.stargazers_count, Strptime(x.updated_at)>>

\* tuple comparison k1 < k2 of two keys
KeyLess(k1, k2) ==
    \/ k1[1] < k2[1]
    \/ k1[1] = k2[1] /\ DatetimeLess(k1[2], k2[2])

\* x is placed before e: its key is smaller, or larger when reversed
PlacedBefore(x, e, reverse) ==
    IF reverse THEN KeyLess(SortKey(e), SortKey(x))
    ELSE KeyLess(SortKey(x), SortKey(e))

RECURSIVE Sorted(_, _)
\* sorted(s, key=SortKey, reverse=reverse): stable in both directions, so
\* the last element goes behind every element it is not placed before
Sorted(s, reverse) ==
    IF s = <<>> THEN <<>>
    ELSE LET x == s[Len(s)]
             rest == Sorted(SubSeq(s, 1, Len(s) - 1), reverse)
             ahead == {i \in 1..Len(rest) : PlacedBefore(x, rest[i], reverse)}
             at == IF ahead = {} THEN Len(rest) + 1 ELSE Min(ahead)
         IN  SubSeq(rest, 1, at - 1) \o <<x>> \o SubSeq(rest, at, Len(rest))

\* write_csv sorting without reverse=True
SortedRepos_NoReverse(rs) == Sorted(rs, FALSE)

\* lines 75-77: the order in which write_csv writes the records
SortedRepos(rs) == Sorted(rs, TRUE)

HeaderRow ==
    <<"full_name", "description", "stargazers_count", "language", "updated_at", "url">>

\* write_csv writing the description as it came
CsvRow_RawDescription(repo) ==
    <<repo.full_name,
      IF repo.description.none THEN <<>> ELSE repo.description.v,
      repo.stargazers_count,
      repo.language,
      repo.updated_at,
      repo.html_url>>

\* lines 78-87: the row written for one record
CsvRow(repo) ==
    <<repo.full_name,
      TruncateDescription(repo.description, DefaultMaxLength),
      repo.stargazers_count,
      repo.language,
      repo.updated_at,
      repo.html_url>>

\* the rows write_csv writes to the file it opened with mode 'w'
WriteCsv(rs) ==
    <<HeaderRow>> \o [i \in 1..Len(rs) |-> CsvRow(SortedRepos(rs)[i])]

NoFile == [none |-> TRUE, v |-> <<>>]

----------------------------------------------------------------------------
(* main and pager *)

\* pager leaving a page one item early
YieldDone_OneEarly(items, i) == i >= Len(items)

\* `yield from data['items']` has emitted every item of the page
YieldDone(items, i) == i > Len(items)

\* pager treating a total count of 0 as not read yet
TotalCountUnset_Falsy(tc) == tc.none \/ tc.v = 0

\* line 54: total_count is None
TotalCountUnset(tc) == tc.none

\* write_csv sorting the list it was given in place
ArgAfterWriteCsv_SortedInPlace(rs) == SortedRepos(rs)

\* the list write_csv was given, after the call: sorted() and
\* truncate_description build new values and nothing is assigned to the list
\* or to a record
ArgAfterWriteCsv(rs) == rs

\* main is entered: the pager generator does not exist yet
Init ==
    /\ pc = "main"
    /\ url = None
    /\ params = NoParams
    /\ total_count = NoneInt
    /\ response = NoResponse
    /\ data = NoData
    /\ idx = 1
    /\ repos = <<>>
    /\ requests = <<>>
    /\ pages = <<>>
    /\ printed = <<>>
    /\ slept = <<>>
    /\ file = NoFile
    /\ err = ""
    /\ description = None
    /\ max_length = DefaultMaxLength
    /\ truncated = None
    /\ truncated2 = None
    /\ tpc = "idle"
    /\ LinkIdle

Raise(e) ==
    /\ pc' = "raised"
    /\ err' = e

\* lines 91-98: main builds params and calls list(pager(URL, params)): the
\* generator is created with its arguments and list() asks it for the first
\* record, which starts its body
MainListPager ==
    /\ pc = "main"
    /\ url' = Some(URL)
    /\ params' = Some(MainParams)
    /\ pc' = "pager"
    /\ UNCHANGED <<total_count, response, data, idx, repos, requests, pages,
                   printed, slept, file, err>>
    /\ UNCHANGED <<truncVars, linkVars>>

\* lines 50-56: one turn of the pager loop up to the yield: get_repos (one
\* request, lines 24-36), response.json(), the total count on the first page
PagerFetch ==
    /\ pc = "pager"
    /\ Truthy(url)
    /\ Len(requests) < MaxFetch
    /\ \E r \in ServerResponses :
        /\ requests' = Append(requests,
               [url |-> url.v, params |-> params, headers |-> RequestHeaders])
        /\ response' = Some(r)
        /\ IF GetReposOutcome(r) # "return"
           THEN /\ Raise(GetReposOutcome(r))
                /\ UNCHANGED <<total_count, data, idx, pages, printed>>
           ELSE IF r.json.none
           THEN /\ Raise("JSONDecodeError")
                /\ UNCHANGED <<total_count, data, idx, pages, printed>>
           ELSE /\ data' = r.json.v
                /\ pages' = Append(pages, [items |-> r.json.v.items, next |-> r.link.next])
                /\ IF TotalCountUnset(total_count)
                   THEN /\ total_count' = Some(r.json.v.total_count)
                        /\ printed' = Append(printed,
                               [msg |-> "Total repositories to fetch", n |-> r.json.v.total_count])
                   ELSE UNCHANGED <<total_count, printed>>
                /\ idx' = 1
                /\ pc' = "yield"
                /\ err' = err
    /\ UNCHANGED <<url, params, repos, slept, file>>
    /\ UNCHANGED <<truncVars, linkVars>>

\* list() putting each new record at the front
PagerYield_Prepend ==
    /\ pc = "yield"
    /\ ~YieldDone(data.items, idx)
    /\ repos' = <<data.items[idx]>> \o repos
    /\ idx' = idx + 1
    /\ UNCHANGED <<pc, url, params, total_count, response, data, requests,
                   pages, printed, slept, file, err>>
    /\ UNCHANGED <<truncVars, linkVars>>

\* line 58 and line 98: the pager yields the next item of the page and
\* list() appends it
PagerYield ==
    /\ pc = "yield"
    /\ ~YieldDone(data.items, idx)
    /\ repos' = Append(repos, data.items[idx])
    /\ idx' = idx + 1
    /\ UNCHANGED <<pc, url, params, total_count, response, data, requests,
                   pages, printed, slept, file, err>>
    /\ UNCHANGED <<truncVars, linkVars>>

\* pager passing the initial params with every page
PagerLinks_KeepParams ==
    /\ pc = "yield"
    /\ YieldDone(data.items, idx)
    /\ LET parsed == ParseLinkHeader(HeadersGetLink(response.v.headers))
       IN  IF parsed.ok
           THEN /\ url' = LinksGetNext(parsed.links)
                /\ params' = params
                /\ pc' = "pager"
                /\ err' = err
           ELSE /\ Raise("AttributeError")
                /\ UNCHANGED <<url, params>>
    /\ UNCHANGED <<total_count, response, data, idx, repos, requests, pages,
                   printed, slept, file>>
    /\ UNCHANGED <<truncVars, linkVars>>

\* pager going on to the next page before the page's items are emitted
PagerLinks_Eager ==
    /\ pc = "yield"
    /\ LET parsed == ParseLinkHeader(HeadersGetLink(response.v.headers))
       IN  IF parsed.ok
           THEN /\ url' = LinksGetNext(parsed.links)
                /\ params' = NoParams
                /\ pc' = "pager"
                /\ err' = err
           ELSE /\ Raise("AttributeError")
                /\ UNCHANGED <<url, params>>
    /\ UNCHANGED <<total_count, response, data, idx, repos, requests, pages,
                   printed, slept, file>>
    /\ UNCHANGED <<truncVars, linkVars>>

\* lines 60-62: after the last item of the page
PagerLinks ==
    /\ pc = "yield"
    /\ YieldDone(data.items, idx)
    /\ LET parsed == ParseLinkHeader(HeadersGetLink(response.v.headers))
       IN  IF parsed.ok
           THEN /\ url' = LinksGetNext(parsed.links)
                /\ params' = NoParams
                /\ pc' = "pager"
                /\ err' = err
           ELSE /\ Raise("AttributeError")
                /\ UNCHANGED <<url, params>>
    /\ UNCHANGED <<total_count, response, data, idx, repos, requests, pages,
                   printed, slept, file>>
    /\ UNCHANGED <<truncVars, linkVars>>

\* line 50 with a false url, then lines 98-99: the pager is exhausted
MainFetched ==
    /\ pc = "pager"
    /\ ~Truthy(url)
    /\ pc' = "fetched"
    /\ printed' = Append(printed, [msg |-> "Total repositories fetched", n |-> Len(repos)])
    /\ UNCHANGED <<url, params, total_count, response, data, idx, repos,
                   requests, pages, slept, file, err>>
    /\ UNCHANGED <<truncVars, linkVars>>

\* main writing what it has when the pager raised
MainWriteCsv_AfterRaise ==
    /\ pc \in {"fetched", "raised"}
    /\ file' = Some(WriteCsv(repos))
    /\ pc' = "done"
    /\ printed' = Append(printed, [msg |-> "Data written", n |-> 0])
    /\ UNCHANGED <<url, params, total_count, response, data, idx, repos,
                   requests, pages, slept, err>>
    /\ UNCHANGED <<truncVars, linkVars>>

\* lines 101-102
MainWriteCsv ==
    /\ pc = "fetched"
    /\ file' = Some(WriteCsv(repos))
    /\ repos' = ArgAfterWriteCsv(repos)
    /\ pc' = "done"
    /\ printed' = Append(printed, [msg |-> "Data written", n |-> 0])
    /\ UNCHANGED <<url, params, total_count, response, data, idx,
                   requests, pages, slept, err>>
    /\ UNCHANGED <<truncVars, linkVars>>

Next ==
    \/ MainListPager
    \/ PagerFetch
    \/ PagerYield
    \/ PagerLinks
    \/ MainFetched
    \/ MainWriteCsv

Spec == Init /\ [][Next]_vars

----------------------------------------------------------------------------
(* truncate_description on its own *)

Alphabet == {"a", "."}

Texts == UNION {[1..n -> Alphabet] : n \in 0..MaxLen}

\* main is not running
MainIdle ==
    /\ pc = "idle"
    /\ url = None
    /\ params = NoParams
    /\ total_count = NoneInt
    /\ response = NoResponse
    /\ data = NoData
    /\ idx = 1
    /\ repos = <<>>
    /\ requests = <<>>
    /\ pages = <<>>
    /\ printed = <<>>
    /\ slept = <<>>
    /\ file = NoFile
    /\ err = ""

InitTrunc ==
    /\ MainIdle
    /\ description \in {None} \cup {Some(t) : t \in Texts}
    /\ max_length \in 0..MaxN
    /\ truncated = None
    /\ truncated2 = None
    /\ tpc = "call"
    /\ LinkIdle

TruncateCall ==
    /\ tpc = "call"
    /\ truncated' = Some(TruncateDescription(description, max_length))
    /\ tpc' = "returned"
    /\ UNCHANGED <<description, max_length, truncated2>>
    /\ UNCHANGED <<mainVars, linkVars>>

\* a second call, on the result of the first
TruncateAgain ==
    /\ tpc = "returned"
    /\ truncated2' = Some(TruncateDescription(truncated, max_length))
    /\ tpc' = "again"
    /\ UNCHANGED <<description, max_length, truncated>>
    /\ UNCHANGED <<mainVars, linkVars>>

NextTrunc ==
    \/ TruncateCall
    \/ TruncateAgain

SpecTrunc == InitTrunc /\ [][NextTrunc]_vars

----------------------------------------------------------------------------
(* parse_link_header on its own *)

EntryUrls == {<<"u">>, <<"b", ",", "c">>}

EntryRels == {RelNext, RelLast}

\* an entry is of the <url>; rel="name" form ("ok"), or is a bare URL, or
\* has text before its "<", or has text after its closing quote
EntryShapes == {"ok", "bare", "prefixed", "suffixed"}

Entries == [url : EntryUrls, rel : EntryRels, shape : EntryShapes]

RenderEntry(e) ==
    CASE e.shape = "ok" -> LinkEntry(e.url, e.rel)
      [] e.shape = "bare" -> e.url
      [] e.shape = "prefixed" -> <<"x">> \o LinkEntry(e.url, e.rel)
      [] e.shape = "suffixed" -> LinkEntry(e.url, e.rel) \o <<";", " ", "t">>

RECURSIVE RenderHeader(_)
\* the entries joined by ', '
RenderHeader(es) ==
    IF es = <<>> THEN <<>>
    ELSE IF Len(es) = 1 THEN RenderEntry(es[1])
    ELSE RenderEntry(es[1]) \o EntrySep \o RenderHeader(Tail(es))

InitLink ==
    /\ MainIdle
    /\ description = None
    /\ max_length = DefaultMaxLength
    /\ truncated = None
    /\ truncated2 = None
    /\ tpc = "idle"
    /\ link_entries \in UNION {[1..n -> Entries] : n \in 0..MaxEntries}
    /\ link_value \in {Some(RenderHeader(link_entries))}
                        \cup (IF link_entries = <<>> THEN {None} ELSE {})
    /\ link_result = NotParsed
    /\ lpc = "call"

\* parse_link_header(response.headers.get('Link', ''))
ParseCall ==
    /\ lpc = "call"
    /\ link_result' = ParseLinkHeader(HeadersGetLink([Link |-> link_value]))
    /\ lpc' = "returned"
    /\ UNCHANGED <<link_entries, link_value>>
    /\ UNCHANGED <<mainVars, truncVars>>

NextLink == ParseCall

SpecLink == InitLink /\ [][NextLink]_vars

----------------------------------------------------------------------------
(* Properties *)

\* the data rows of the output file
DataRows == SubSeq(file.v, 2, Len(file.v))

\* the pager ran to its end and main has the whole list
PagerExhausted == pc \in {"fetched", "done"}

RECURSIVE Flatten(_)
\* the items of a sequence of pages, page after page
Flatten(ps) ==
    IF ps = <<>> THEN <<>> ELSE Flatten(SubSeq(ps, 1, Len(ps) - 1)) \o ps[Len(ps)].items

RECURSIVE SumLen(_)
\* the sum of the item counts of a sequence of pages
SumLen(ps) ==
    IF ps = <<>> THEN 0 ELSE SumLen(SubSeq(ps, 1, Len(ps) - 1)) + Len(ps[Len(ps)].items)

\* the status of the last response is one get_repos takes for throttling
LastThrottled == ~response.none /\ IsThrottled(response.v.status_code)

\* C1 (as claimed): the data rows of the file are in non-increasing
\* stargazers_count order: no row has fewer stars than a later row.
C1_StarsDescending ==
    ~file.none =>
        \A i, j \in 1..Len(DataRows) :
            i < j => DataRows[i][3] >= DataRows[j][3]

\* C2 (as claimed): a response with status 429 or 403 makes the fetcher
\* sleep and go on to re-issue the request: it has slept and has not raised.
C2_ThrottledSleepsAndRetries ==
    LastThrottled => Len(slept) >= 1 /\ pc # "raised"

\* C3 (as claimed): throttling is never surfaced to the caller: no run ends
\* in an error raised on a 429 or 403 response.
C3_ThrottlingNeverSurfaced ==
    pc = "raised" => ~LastThrottled

\* C4: when the pager is exhausted, the list is the concatenation of the
\* pages' items in page order, one request was made per page, the first for
\* the start URL and each later one for the next URL of the page before it,
\* and only the last page has no next relation.
C4_PagerConcatenatesPages ==
    PagerExhausted =>
        /\ repos = Flatten(pages)
        /\ Len(pages) >= 1
        /\ Len(requests) = Len(pages)
        /\ requests[1].url = URL
        /\ \A i \in 1..(Len(pages) - 1) :
              /\ ~pages[i].next.none
              /\ requests[i + 1].url = pages[i].next.v
        /\ pages[Len(pages)].next.none

C4_Witness ==
    /\ PagerExhausted
    /\ Len(pages) = 3
    /\ Len(pages[1].items) = 2
    /\ pages[2].items = <<>>
    /\ Len(repos) = 3

\* C5 (as claimed): when pagination completes, the length of the list equals
\* the total_count the first page declared.
C5_LengthIsTotalCount ==
    PagerExhausted => Len(repos) = total_count.v

\* C5 (amended): when pagination completes, the length of the list equals
\* the sum of the item counts of the pages fetched, whatever total_count the
\* first page declared.
C5_LengthIsSumOfPages ==
    PagerExhausted => ~total_count.none /\ Len(repos) = SumLen(pages)

C5_Witness ==
    /\ PagerExhausted
    /\ Len(pages) = 2
    /\ Len(repos) = 3
    /\ total_count.v = 2

\* C6 (as claimed): the result of truncate_description is never longer than
\* max_length; for a text longer than max_length it has length max_length
\* and ends with '...'; a text of at most max_length is returned as it is;
\* None gives ''.
C6_TruncateWithinMaxLength ==
    tpc = "returned" =>
        LET r == truncated.v
        IN  /\ Len(r) <= max_length
            /\ description.none => r = <<>>
            /\ (~description.none /\ max_length < Len(description.v)) =>
                  /\ Len(r) = max_length
                  /\ SubSeq(r, Len(r) - 2, Len(r)) = Ellipsis
            /\ (~description.none /\ max_length >= Len(description.v)) =>
                  r = description.v

\* the request the last response answered was the only one of its get_repos
\* call: every request before it gave a page
OneRequestForLastCall == Len(requests) = Len(pages) + 1

\* C7 (as claimed): a response whose status is not 2xx and neither 429 nor
\* 403 makes get_repos raise after that one request, and the run aborts.
C7_NonSuccessRaises ==
    (/\ ~response.none
     /\ ~(200 <= response.v.status_code /\ response.v.status_code < 300)
     /\ ~LastThrottled) =>
        /\ pc = "raised"
        /\ err = "HTTPError"
        /\ OneRequestForLastCall
        /\ slept = <<>>
        /\ file.none

\* C7 (amended): a response whose status is 4xx or 5xx and neither 429 nor
\* 403 makes get_repos raise after that one request, without sleeping, and
\* the run aborts with nothing written.
C7_ClientOrServerErrorRaises ==
    (/\ ~response.none
     /\ 400 <= response.v.status_code /\ response.v.status_code < 600
     /\ ~LastThrottled) =>
        /\ pc = "raised"
        /\ err = "HTTPError"
        /\ OneRequestForLastCall
        /\ slept = <<>>
        /\ file.none

C7_Witness ==
    /\ ~response.none
    /\ response.v.status_code = 404
    /\ err = "HTTPError"
    /\ Len(requests) = 3
    /\ Len(repos) >= 1

\* C8: the output file is open only when the pager is exhausted, with every
\* item of every page, the last included, in the list; a run that ended in
\* an error has no output file.
C8_FileOnlyAfterLastPage ==
    /\ ~file.none =>
          /\ pc = "done"
          /\ ~Truthy(url)
          /\ YieldDone(data.items, idx)
          /\ pages[Len(pages)].next.none
          /\ Len(requests) = Len(pages)
          /\ repos = Flatten(pages)
    /\ (pc = "raised" \/ err # "") => file.none

C8_Witness ==
    /\ ~file.none
    /\ Len(pages) = 2
    /\ Len(pages[2].items) = 2

\* C9: among the data rows with equal stargazers_count no row is older than
\* a later row: the most recently updated comes first.
C9_TiesMostRecentFirst ==
    ~file.none =>
        \A i, j \in 1..Len(DataRows) :
            (i < j /\ DataRows[i][3] = DataRows[j][3]) =>
                ~DatetimeLess(Strptime(DataRows[i][5]), Strptime(DataRows[j][5]))

C9_Witness ==
    /\ ~file.none
    /\ repos = <<Repo20Old, Repo10Old, Repo20New>>
    /\ \E i, j \in 1..Len(DataRows) :
          /\ i < j
          /\ DataRows[i][1] = Repo20New.full_name
          /\ DataRows[j][1] = Repo20Old.full_name

\* C10: the file holds the header row and then one row per record of the
\* list: as many rows as records, each record's row as often as the record
\* is in the list, with full_name, stargazers_count, language, updated_at and
\* html_url as they are in the record and the description truncated to the
\* default length.
C10_HeaderAndOneRowPerRecord ==
    ~file.none =>
        /\ Len(file.v) = Len(repos) + 1
        /\ file.v[1] = HeaderRow
        /\ \A k \in 1..Len(repos) :
              LET r == repos[k]
                  row == <<r.full_name,
                           TruncateDescription(r.description, DefaultMaxLength),
                           r.stargazers_count, r.language, r.updated_at, r.html_url>>
              IN  Cardinality({i \in 1..Len(DataRows) : DataRows[i] = row})
                    = Cardinality({m \in 1..Len(repos) : repos[m] = r})

C10_Witness ==
    /\ ~file.none
    /\ Len(file.v) = 4
    /\ \E i, j \in 1..Len(repos) : i # j /\ repos[i] = repos[j]
    /\ \E i \in 1..Len(repos) : Len(repos[i].description.v) > DefaultMaxLength
    /\ \E i \in 1..Len(DataRows) : Len(DataRows[i][2]) = DefaultMaxLength

\* every entry the header was made of has the <url>; rel="name" form
AllWellFormed == \A i \in 1..Len(link_entries) : link_entries[i].shape = "ok"

\* C11: for a header of well-formed entries joined by ', ' the mapping
\* returned has exactly the entries' rel names as keys, and each name maps to
\* the URL of its entry (of the last one, where a name is repeated); an
\* empty or absent header gives the empty mapping.
C11_WellFormedHeaderParsed ==
    (lpc = "returned" /\ AllWellFormed) =>
        /\ link_result.ok
        /\ DOMAIN link_result.links =
              {link_entries[i].rel : i \in 1..Len(link_entries)}
        /\ \A i \in 1..Len(link_entries) :
              (\A j \in (i + 1)..Len(link_entries) :
                    link_entries[j].rel # link_entries[i].rel)
                  => link_result.links[link_entries[i].rel] = link_entries[i].url
        /\ (link_value.none \/ link_value.v = <<>>) => link_result.links = EmptyLinks

C11_Witness ==
    /\ lpc = "returned"
    /\ AllWellFormed
    /\ Len(link_entries) = 2
    /\ link_entries[1].rel = RelNext
    /\ link_entries[1].url = <<"b", ",", "c">>
    /\ link_entries[2].rel = RelLast
    /\ link_result.ok
    /\ link_result.links[RelNext] = <<"b", ",", "c">>

\* C15 (as claimed): a header with an entry that is not of the
\* <url>; rel="name" form makes parse_link_header fail: no mapping is
\* returned and no such entry is skipped or accepted.
C15_MalformedEntryFails ==
    (lpc = "returned" /\ ~AllWellFormed) => ~link_result.ok

\* C20: for max_length >= 3, truncating the result of truncate_description
\* again with the same max_length gives the same result, for every text and
\* for None.
C20_TruncateIdempotent ==
    (tpc = "again" /\ max_length >= 3) => truncated2.v = truncated.v

C20_Witness ==
    /\ tpc = "again"
    /\ max_length = 3
    /\ ~description.none
    /\ Len(description.v) = 4
    /\ Len(truncated.v) = 3
    /\ truncated2.v = Ellipsis

\* C12 (as claimed): every throttled response is followed by a sleep, and
\* every sleep lasts at least the 1-second buffer: the wait is never below 0.
C12_SleepNeverNegative ==
    LastThrottled => (slept # <<>> /\ \A i \in 1..Len(slept) : slept[i] >= 1)

\* C13 (as claimed): the pager ends also when a next relation points back to
\* a page already fetched: it never fetches a URL it has fetched before.
C13_NoPageFetchedAgain ==
    \A i, j \in 1..Len(requests) :
        i < j => requests[i].url # requests[j].url

\* C14: the first request carries the initial params and goes to the start
\* URL; every later request carries no params and goes to the next URL of
\* the page before it.
C14_ParamsOnFirstFetchOnly ==
    \A i \in 1..Len(requests) :
        IF i = 1
        THEN /\ requests[i].params = Some(MainParams)
             /\ requests[i].url = URL
        ELSE /\ requests[i].params.none
             /\ ~pages[i - 1].next.none
             /\ requests[i].url = pages[i - 1].next.v

C14_Witness ==
    /\ Len(requests) = 3
    /\ requests[1].params = Some(MainParams)
    /\ requests[3].params.none
    /\ requests[3].url = Page2

\* the positions of the total-count report in what was printed
ToFetchReports(p) == {i \in 1..Len(p) : p[i].msg = "Total repositories to fetch"}

\* C16: the total count is read and reported exactly once, from the first
\* page response and before any record is emitted: it is unread and
\* unreported before the first page, read and reported once (first of all
\* that is printed) from then on, and a step changes either only on the first
\* page, with no record emitted, to the count that page declares.
C16_TotalCountReportedOnce ==
    /\ [](IF pages = <<>>
          THEN total_count.none /\ ToFetchReports(printed) = {} /\ repos = <<>>
          ELSE ~total_count.none /\ ToFetchReports(printed) = {1}
                 /\ printed[1].n = total_count.v)
    /\ [][(total_count' # total_count
             \/ ToFetchReports(printed') # ToFetchReports(printed)) =>
            /\ pages = <<>>
            /\ Len(pages') = 1
            /\ repos' = <<>>
            /\ total_count' = Some(response'.v.json.v.total_count)]_vars

C16_Witness ==
    /\ Len(pages) = 2
    /\ Len(repos) >= 1
    /\ ~total_count.none
    /\ total_count.v = 0
    /\ response.v.json.v.total_count = 2
    /\ ToFetchReports(printed) = {1}

\* a is a prefix of b
IsPrefix(a, b) == Len(a) <= Len(b) /\ SubSeq(b, 1, Len(a)) = a

\* the calls of write_csv that have returned
WriteCsvCalls == {i \in 1..Len(printed) : printed[i].msg = "Data written"}

\* C17: the list starts empty, every step leaves it a prefix of what it
\* becomes, and write_csv is called on it at most once: once in a run that
\* reached its end, and only after the pager was exhausted.
C17_ResultSetOnlyGrows ==
    /\ repos = <<>>
    /\ [][IsPrefix(repos, repos')]_vars
    /\ [](/\ Cardinality(WriteCsvCalls) <= 1
          /\ (pc = "done") = (Cardinality(WriteCsvCalls) = 1)
          /\ (pc = "done") = ~file.none)
    /\ [][file' # file => (pc = "fetched" /\ file.none)]_vars

C17_Witness ==
    /\ pc = "done"
    /\ Len(repos) = 4
    /\ Len(pages) = 3
    /\ Cardinality(WriteCsvCalls) = 1

\* C18: the step that writes the file leaves the list as it was: the same
\* records in the same order, every field as before.
C18_WriteCsvLeavesInput ==
    [][(file.none /\ ~file'.none) => repos' = repos]_vars

C18_Witness ==
    /\ pc = "done"
    /\ ~file.none
    /\ repos = <<Repo20New, Repo10Old>>
    /\ repos # SortedRepos(repos)
    /\ Len(repos[1].description.v) > DefaultMaxLength
    /\ Len(file.v[3][2]) = DefaultMaxLength

\* C19: no request is made before list() asks the pager for the first
\* record; a request is made only with every record of every page fetched
\* so far emitted; and the records fetched and not yet emitted are the rest
\* of the last page only.
C19_PagerLazy ==
    /\ [](/\ pc = "main" => requests = <<>>
          /\ IsPrefix(repos, Flatten(pages))
          /\ pages # <<>> =>
                IsPrefix(Flatten(SubSeq(pages, 1, Len(pages) - 1)), repos))
    /\ [][requests' # requests =>
            /\ pc = "pager"
            /\ repos = Flatten(pages)
            /\ Len(requests') = Len(requests) + 1]_vars

C19_Witness ==
    /\ pc = "yield"
    /\ Len(pages) = 2
    /\ Len(pages[1].items) = 2
    /\ Len(pages[2].items) = 2
    /\ Len(repos) = 3

====
